---- MODULE Spec2Model ----
(***************************************************************************)
(* DS1307 real-time-clock driver (ds1307.c / ds1307.h).                    *)
(*                                                                         *)
(* Every driver function is an operator that computes, from the retained   *)
(* I2C handle, the peripheral's registers and the outcome the bus          *)
(* transport chooses for each transaction, the status it returns, the      *)
(* output it stores and the list of bus transactions it issues.  Every     *)
(* public function has one action that performs one whole call and leaves  *)
(* its record in fn, arg, ret, out and log; Return hands control back to   *)
(* the caller, who makes the next call.                                    *)
(***************************************************************************)
EXTENDS Integers, Sequences, FiniteSets, TLC

VARIABLES
    DS1307_I2C,   \* the driver's retained copy of the I2C handle (0: zeroed static)
    regs,         \* the peripheral's registers 0x00..0x3F
    fn,           \* name of the driver function just called ("none": between calls)
    arg,          \* its arguments
    ret,          \* the status it returned
    out,          \* the caller's output objects after the call
    log,          \* the bus transactions the call issued, in order
    calls         \* number of calls made so far

vars == <<DS1307_I2C, regs, fn, arg, ret, out, log, calls>>

----------------------------------------------------------------------------
(* Bounds of the model *)

MaxCalls == 2       \* calls per behaviour
MaxBcdLen == 3      \* longest array given to DS1307_Bin_to_BCD on its own

----------------------------------------------------------------------------
(* Program constants, ds1307.h *)

DS1307_TIMEOUT == 10
DS1307_MAX_BUFF_SIZE == 64

\* the 7-bit address shifted into an 8-bit bus address
D_DS1307_ADDR_Shifted == 104 * 2

D_DS1307_ADDR == 104
D_DS1307_REG_SEC == 0
D_DS1307_REG_DAY == 3
D_DS1307_REG_CTRL == 7
D_DS1307_REG_RAM56 == 63
D_DS1307_BIT_CH == 7

DS1307_OK == 0
DS1307_ERROR == 1
DS1307_BUSY == 2
DS1307_TIMEOUT_ERR == 3
DS1307_NOT_FOUND == 4
DS1307_DATA_SIZE_ERROR == 5

\* DS1307_SQWO_t
DS1307_SQWO == {16, 17, 18, 19, 128, 0}

\* uint8_t
Byte == 0..255

----------------------------------------------------------------------------
(* C integer operators *)

RECURSIVE BitAnd(_, _)
BitAnd(a, b) ==
    IF a = 0 \/ b = 0 THEN 0
    ELSE (IF a % 2 = 1 /\ b % 2 = 1 THEN 1 ELSE 0) + 2 * BitAnd(a \div 2, b \div 2)

RECURSIVE BitOr(_, _)
BitOr(a, b) ==
    IF a = 0 THEN b
    ELSE IF b = 0 THEN a
    ELSE (IF a % 2 = 1 \/ b % 2 = 1 THEN 1 ELSE 0) + 2 * BitOr(a \div 2, b \div 2)

RECURSIVE Pow2(_)
Pow2(n) == IF n = 0 THEN 1 ELSE 2 * Pow2(n - 1)

\* x << n on int
Shl(x, n) == x * Pow2(n)

\* conversion of a non-negative int to uint8_t
U8(x) == x % 256

\* uint8_t buf[n] = {0}
ZeroBuf(n) == [i \in 1..n |-> 0]

----------------------------------------------------------------------------
(* The bus transport (HAL_I2C_Mem_Write / HAL_I2C_Mem_Read) and the        *)
(* peripheral behind it.  The transport's status is the environment's      *)
(* choice; a read that succeeds delivers Size bytes, a read that fails     *)
(* delivers all or none of them.                                           *)

HALStatus == {DS1307_OK, DS1307_ERROR, DS1307_BUSY, DS1307_TIMEOUT_ERR}

Deliveries == {"all", "none"}

\* the deliveries that differ for a transaction of status st
Parts(st) == IF st = DS1307_OK THEN {"all"} ELSE Deliveries

Delivered(Size, st, part) ==
    IF st = DS1307_OK \/ part = "all" THEN Size ELSE 0

\* the register the peripheral's address pointer is at after i increments:
\* it wraps from 0x3F to 0x00
RegAt(MemAddress, i) == (MemAddress + i) % (D_DS1307_REG_RAM56 + 1)

HAL_I2C_Mem_Write(hi2c, DevAddress, MemAddress, MemAddSize, pData, Size, Timeout, st) ==
    [op |-> "write", hi2c |-> hi2c, DevAddress |-> DevAddress,
     MemAddress |-> MemAddress, MemAddSize |-> MemAddSize,
     pData |-> SubSeq(pData, 1, Size), Size |-> Size, Timeout |-> Timeout,
     status |-> st]

HAL_I2C_Mem_Read(hi2c, DevAddress, MemAddress, MemAddSize, Size, Timeout, st, part, r) ==
    [op |-> "read", hi2c |-> hi2c, DevAddress |-> DevAddress,
     MemAddress |-> MemAddress, MemAddSize |-> MemAddSize,
     pData |-> [i \in 1..Delivered(Size, st, part) |->
                   IF MemAddress <= D_DS1307_REG_RAM56
                   THEN r[RegAt(MemAddress, i - 1)] ELSE 0],
     Size |-> Size, Timeout |-> Timeout, status |-> st]

\* the bytes of buffer buf after the transport stored transaction t's data in it
Received(buf, t) ==
    [i \in 1..Len(buf) |-> IF i <= Len(t.pData) THEN t.pData[i] ELSE buf[i]]

\* the peripheral's registers after bus transaction t
Peripheral(r, t) ==
    IF t.op = "write" /\ t.status = DS1307_OK /\ t.MemAddress <= D_DS1307_REG_RAM56
    THEN LET window == D_DS1307_REG_RAM56 + 1
             n == Len(t.pData)
         IN  [a \in DOMAIN r |->
                 LET first == ((a + window - t.MemAddress) % window) + 1
                     \* the last byte of the transfer that lands on register a
                     last == first + window * ((n - first) \div window)
                 IN  IF first <= n THEN t.pData[last] ELSE r[a]]
    ELSE r

RECURSIVE PeripheralAfter(_, _)
PeripheralAfter(r, l) ==
    IF l = << >> THEN r ELSE PeripheralAfter(Peripheral(r, Head(l)), Tail(l))

----------------------------------------------------------------------------
(* DS1307_Bin_to_BCD, ds1307.c:376 *)

\* the result kept wider than 8 bits
Bin_to_BCD_Byte_Wide(v) == BitOr(Shl(v \div 10, 4), v % 10)

\* the tens digit shifted by 3 instead of 4
Bin_to_BCD_Byte_Shift3(v) == U8(BitOr(Shl(v \div 10, 3), v % 10))

\* ((data[i] / 10) << 4) | (data[i] % 10), stored to a uint8_t
Bin_to_BCD_Byte(v) == U8(BitOr(Shl(v \div 10, 4), v % 10))

DS1307_Bin_to_BCD(data, len) ==
    [i \in 1..Len(data) |-> IF i <= len THEN Bin_to_BCD_Byte(data[i]) ELSE data[i]]

----------------------------------------------------------------------------
(* DS1307_Init, ds1307.c:49 *)

\* the mask assigned instead of and-ed: value = ~(1 << D_DS1307_BIT_CH)
Init_ClearCH_Assign(value) == 255 - Shl(1, D_DS1307_BIT_CH)

\* the CH bit set instead of cleared
Init_ClearCH_Set(value) == BitOr(value, Shl(1, D_DS1307_BIT_CH))

\* value &= ~(1 << D_DS1307_BIT_CH)
Init_ClearCH(value) == BitAnd(value, 255 - Shl(1, D_DS1307_BIT_CH))

\* the check of the first write left out
Init_NotFound_Never(status) == FALSE

\* every status but DS1307_OK taken for a missing device
Init_NotFound_NotOK(status) == status # DS1307_OK

\* the comparison made with DS1307_BUSY
Init_NotFound_Busy(status) == status = DS1307_BUSY

\* if (status == DS1307_ERROR)
Init_NotFound(status) == status = DS1307_ERROR

\* the copy left out: the handle stays as memset cleared it
Init_Retain_Cleared(handler) == 0

\* memset(&DS1307_I2C, 0, ...); memcpy(&DS1307_I2C, handler, ...)
Init_Retain(handler) == handler

DS1307_Init(handler, sqwOut, r, st1, st2, st3, part3) ==
    LET I2C == Init_Retain(handler)
        v1 == Init_ClearCH(0)
        t1 == HAL_I2C_Mem_Write(I2C, D_DS1307_ADDR, D_DS1307_REG_SEC, 1, <<v1>>, 1,
                                DS1307_TIMEOUT, st1)
    IN  IF Init_NotFound(t1.status)
        THEN [status |-> DS1307_NOT_FOUND, I2C |-> I2C, value |-> v1, log |-> <<t1>>]
        ELSE LET v2 == U8(sqwOut)
                 t2 == HAL_I2C_Mem_Write(I2C, D_DS1307_ADDR, D_DS1307_REG_CTRL, 1, <<v2>>, 1,
                                         DS1307_TIMEOUT, st2)
                 t3 == HAL_I2C_Mem_Read(I2C, D_DS1307_ADDR, D_DS1307_REG_CTRL, 1, 1,
                                        DS1307_TIMEOUT, st3, part3,
                                        PeripheralAfter(r, <<t1, t2>>))
                 v3 == Received(<<0>>, t3)
             IN  [status |-> t3.status, I2C |-> I2C, value |-> v3[1],
                  log |-> <<t1, t2, t3>>]

----------------------------------------------------------------------------
(* DS1307_ReadReg, ds1307.c:120 *)

\* uint8_t dataLen = 0: the transfer size handed to HAL_I2C_Mem_Read
ReadReg_dataLen(readLen) == 0

\* the register written with 0 before it is read
DS1307_ReadReg_ClearFirst(regAdd, readLen, I2C, r, st, part, junk) ==
    LET dataLen == ReadReg_dataLen(readLen)
        w == HAL_I2C_Mem_Write(I2C, D_DS1307_ADDR, regAdd, 1, <<0>>, 1, DS1307_TIMEOUT, st)
        t == HAL_I2C_Mem_Read(I2C, D_DS1307_ADDR, regAdd, 1, dataLen, DS1307_TIMEOUT,
                              st, part, Peripheral(r, w))
        value == Received(ZeroBuf(DS1307_MAX_BUFF_SIZE), t)
    IN  [status |-> t.status,
         dataRead |-> [i \in 1..readLen |->
                          IF i <= DS1307_MAX_BUFF_SIZE THEN value[i] ELSE junk],
         log |-> <<w, t>>]

\* a failed bus read issued a second time
DS1307_ReadReg_Retry(regAdd, readLen, I2C, r, st, part, junk) ==
    LET dataLen == ReadReg_dataLen(readLen)
        t == HAL_I2C_Mem_Read(I2C, D_DS1307_ADDR, regAdd, 1, dataLen, DS1307_TIMEOUT,
                              st, part, r)
        value == Received(ZeroBuf(DS1307_MAX_BUFF_SIZE), t)
    IN  [status |-> t.status,
         dataRead |-> [i \in 1..readLen |->
                          IF i <= DS1307_MAX_BUFF_SIZE THEN value[i] ELSE junk],
         log |-> IF t.status = DS1307_OK THEN <<t>> ELSE <<t, t>>]

\* junk: the byte found past the end of value[] when readLen > DS1307_MAX_BUFF_SIZE
DS1307_ReadReg(regAdd, readLen, I2C, r, st, part, junk) ==
    LET dataLen == ReadReg_dataLen(readLen)
        t == HAL_I2C_Mem_Read(I2C, D_DS1307_ADDR, regAdd, 1, dataLen, DS1307_TIMEOUT,
                              st, part, r)
        value == Received(ZeroBuf(DS1307_MAX_BUFF_SIZE), t)
    IN  [status |-> t.status,
         dataRead |-> [i \in 1..readLen |->
                          IF i <= DS1307_MAX_BUFF_SIZE THEN value[i] ELSE junk],
         log |-> <<t>>]

----------------------------------------------------------------------------
(* DS1307_WriteReg, ds1307.c:150 *)

\* the comparison made with >=
WriteReg_TooLong_Ge(dataLen) == dataLen >= DS1307_MAX_BUFF_SIZE

\* if (dataLen > DS1307_MAX_BUFF_SIZE)
WriteReg_TooLong(dataLen) == dataLen > DS1307_MAX_BUFF_SIZE

\* the copy loop stopping one byte early
WriteReg_Stage_Short(dataWrite, dataLen) ==
    [i \in 1..DS1307_MAX_BUFF_SIZE |-> IF i < dataLen THEN dataWrite[i] ELSE 0]

\* uint8_t value[DS1307_MAX_BUFF_SIZE] = {0}; for (i < dataLen) value[i] = dataWrite[i]
WriteReg_Stage(dataWrite, dataLen) ==
    [i \in 1..DS1307_MAX_BUFF_SIZE |-> IF i <= dataLen THEN dataWrite[i] ELSE 0]

DS1307_WriteReg(regAdd, dataWrite, writeLen, I2C, st) ==
    LET dataLen == writeLen
    IN  IF WriteReg_TooLong(dataLen)
        THEN [status |-> DS1307_DATA_SIZE_ERROR, dataWrite |-> dataWrite, log |-> << >>]
        ELSE LET value == WriteReg_Stage(dataWrite, dataLen)
                 t == HAL_I2C_Mem_Write(I2C, D_DS1307_ADDR, regAdd, 1, value, dataLen,
                                        DS1307_TIMEOUT, st)
             IN  [status |-> t.status, dataWrite |-> dataWrite, log |-> <<t>>]

----------------------------------------------------------------------------
(* The time and date reads, ds1307.c:190-365 *)

Time(value) == [Sec |-> value[1], Min |-> value[2], Hour |-> value[3]]

Date(value) == [Day |-> value[1], Date |-> value[2], Month |-> value[3], Year |-> value[4]]

\* the output left alone when the read failed
DS1307_ReadTime_Bin_SkipOnError(I2C, r, st, part) ==
    LET rd == DS1307_ReadReg(D_DS1307_REG_SEC, 3, I2C, r, st, part, 0)
        value == rd.dataRead
    IN  [status |-> rd.status,
         dataRead |-> IF rd.status = DS1307_OK THEN Time(value)
                      ELSE [Sec |-> 0 - 1, Min |-> 0 - 1, Hour |-> 0 - 1],
         log |-> rd.log]

DS1307_ReadTime_Bin(I2C, r, st, part) ==
    LET rd == DS1307_ReadReg(D_DS1307_REG_SEC, 3, I2C, r, st, part, 0)
        value == rd.dataRead
    IN  [status |-> rd.status, dataRead |-> Time(value), log |-> rd.log]

DS1307_ReadTime_BCD(I2C, r, st, part) ==
    LET rd == DS1307_ReadReg(D_DS1307_REG_SEC, 3, I2C, r, st, part, 0)
        value == DS1307_Bin_to_BCD(rd.dataRead, 3)
    IN  [status |-> rd.status, dataRead |-> Time(value), log |-> rd.log]

DS1307_ReadDate_Bin(I2C, r, st, part) ==
    LET rd == DS1307_ReadReg(D_DS1307_REG_DAY, 4, I2C, r, st, part, 0)
        value == rd.dataRead
    IN  [status |-> rd.status, dataRead |-> Date(value), log |-> rd.log]

DS1307_ReadDate_BCD(I2C, r, st, part) ==
    LET rd == DS1307_ReadReg(D_DS1307_REG_DAY, 4, I2C, r, st, part, 0)
        value == DS1307_Bin_to_BCD(rd.dataRead, 4)
    IN  [status |-> rd.status, dataRead |-> Date(value), log |-> rd.log]

\* the status of a failed Date read kept instead of overwritten
DS1307_ReadDateTime_Bin_KeepDate(I2C, r, stD, partD, stT, partT) ==
    LET d == DS1307_ReadDate_Bin(I2C, r, stD, partD)
        t == DS1307_ReadTime_Bin(I2C, PeripheralAfter(r, d.log), stT, partT)
    IN  [status |-> IF d.status # DS1307_OK THEN d.status ELSE t.status,
         date |-> d.dataRead, time |-> t.dataRead, log |-> d.log \o t.log]

DS1307_ReadDateTime_Bin(I2C, r, stD, partD, stT, partT) ==
    LET d == DS1307_ReadDate_Bin(I2C, r, stD, partD)
        t == DS1307_ReadTime_Bin(I2C, PeripheralAfter(r, d.log), stT, partT)
    IN  [status |-> t.status, date |-> d.dataRead, time |-> t.dataRead,
         log |-> d.log \o t.log]

DS1307_ReadDateTime_BCD(I2C, r, stD, partD, stT, partT) ==
    LET d == DS1307_ReadDate_BCD(I2C, r, stD, partD)
        t == DS1307_ReadTime_BCD(I2C, PeripheralAfter(r, d.log), stT, partT)
    IN  [status |-> t.status, date |-> d.dataRead, time |-> t.dataRead,
         log |-> d.log \o t.log]

----------------------------------------------------------------------------
(* The callers' inputs *)

\* the I2C handles the caller owns
Handles == {1, 2}

\* square-wave modes the caller passes: _1Hz, _No_Output_1, _No_Output_0
SqwOuts == {16, 128, 0}

\* register addresses the caller passes: inside, at the end of and beyond the window
RegAdds == {0, 3, 63, 64}

\* transfer lengths the caller passes
Lens == {0, 1, 4, 64, 65, 255}

\* the caller's buffer of n bytes: b, b+1, b+2, ...
Buffer(b, n) == [i \in 1..n |-> U8(b + i - 1)]

BufferStarts == {1, 200}

\* bytes found past the end of an array
JunkBytes == {0, 255}

Junk(readLen) == IF readLen > DS1307_MAX_BUFF_SIZE THEN JunkBytes ELSE {0}

\* register contents before the first call
RegImages ==
    { [a \in 0..D_DS1307_REG_RAM56 |->
          CASE a = 0 -> 34 [] a = 1 -> 59 [] a = 2 -> 12 [] a = 3 -> 3
            [] a = 4 -> 15 [] a = 5 -> 8 [] a = 6 -> 24 [] a = 7 -> 3
            [] OTHER -> U8(255 - 3 * a)] }

\* the caller is between two calls and has calls left to make
MoreCalls == fn = "none" /\ calls < MaxCalls

\* a field or byte of the caller's object that the call has not assigned:
\* no value of a uint8_t or of DS1307_Status_t
Unset == 0 - 1

NoArg == [handler |-> Unset, sqwOut |-> Unset, regAdd |-> Unset, len |-> Unset,
          data |-> << >>]

NoOut == [buf |-> << >>,
          time |-> [Sec |-> Unset, Min |-> Unset, Hour |-> Unset],
          date |-> [Day |-> Unset, Date |-> Unset, Month |-> Unset, Year |-> Unset],
          value |-> Unset]

----------------------------------------------------------------------------
(* The specification of the driver *)

Init ==
    /\ DS1307_I2C = 0
    /\ regs \in RegImages
    /\ fn = "none"
    /\ arg = NoArg
    /\ ret = Unset
    /\ out = NoOut
    /\ log = << >>
    /\ calls = 0

\* what every call does besides its own result: the peripheral applies the
\* transactions and the call is counted
Called(name, a, res) ==
    /\ calls' = calls + 1
    /\ fn' = name
    /\ arg' = a
    /\ ret' = res.status
    /\ log' = res.log
    /\ regs' = PeripheralAfter(regs, res.log)

CallInit ==
    /\ MoreCalls
    /\ \E handler \in Handles, sqwOut \in SqwOuts, st1, st2, st3 \in HALStatus :
       \E part3 \in Parts(st3) :
        \E res \in {DS1307_Init(handler, sqwOut, regs, st1, st2, st3, part3)} :
            /\ Called("Init", [NoArg EXCEPT !.handler = handler, !.sqwOut = sqwOut], res)
            /\ DS1307_I2C' = res.I2C
            /\ out' = [NoOut EXCEPT !.value = res.value]

CallReadReg ==
    /\ MoreCalls
    /\ \E regAdd \in RegAdds, readLen \in Lens, st \in HALStatus :
       \E part \in Parts(st), junk \in Junk(readLen) :
        \E res \in {DS1307_ReadReg(regAdd, readLen, DS1307_I2C, regs, st, part, junk)} :
            /\ Called("ReadReg", [NoArg EXCEPT !.regAdd = regAdd, !.len = readLen], res)
            /\ out' = [NoOut EXCEPT !.buf = res.dataRead]
            /\ UNCHANGED DS1307_I2C

CallWriteReg ==
    /\ MoreCalls
    /\ \E regAdd \in RegAdds, writeLen \in Lens, b \in BufferStarts, st \in HALStatus :
        \E dataWrite \in {Buffer(b, writeLen)} :
        \E res \in {DS1307_WriteReg(regAdd, dataWrite, writeLen, DS1307_I2C, st)} :
            /\ Called("WriteReg",
                      [NoArg EXCEPT !.regAdd = regAdd, !.len = writeLen,
                                    !.data = dataWrite], res)
            /\ out' = [NoOut EXCEPT !.buf = res.dataWrite]
            /\ UNCHANGED DS1307_I2C

CallReadTime_Bin ==
    /\ MoreCalls
    /\ \E st \in HALStatus : \E part \in Parts(st) :
        \E res \in {DS1307_ReadTime_Bin(DS1307_I2C, regs, st, part)} :
            /\ Called("ReadTime_Bin", NoArg, res)
            /\ out' = [NoOut EXCEPT !.time = res.dataRead]
            /\ UNCHANGED DS1307_I2C

CallReadTime_BCD ==
    /\ MoreCalls
    /\ \E st \in HALStatus : \E part \in Parts(st) :
        \E res \in {DS1307_ReadTime_BCD(DS1307_I2C, regs, st, part)} :
            /\ Called("ReadTime_BCD", NoArg, res)
            /\ out' = [NoOut EXCEPT !.time = res.dataRead]
            /\ UNCHANGED DS1307_I2C

CallReadDate_Bin ==
    /\ MoreCalls
    /\ \E st \in HALStatus : \E part \in Parts(st) :
        \E res \in {DS1307_ReadDate_Bin(DS1307_I2C, regs, st, part)} :
            /\ Called("ReadDate_Bin", NoArg, res)
            /\ out' = [NoOut EXCEPT !.date = res.dataRead]
            /\ UNCHANGED DS1307_I2C

CallReadDate_BCD ==
    /\ MoreCalls
    /\ \E st \in HALStatus : \E part \in Parts(st) :
        \E res \in {DS1307_ReadDate_BCD(DS1307_I2C, regs, st, part)} :
            /\ Called("ReadDate_BCD", NoArg, res)
            /\ out' = [NoOut EXCEPT !.date = res.dataRead]
            /\ UNCHANGED DS1307_I2C

CallReadDateTime_Bin ==
    /\ MoreCalls
    /\ \E stD, stT \in HALStatus : \E partD \in Parts(stD), partT \in Parts(stT) :
        \E res \in {DS1307_ReadDateTime_Bin(DS1307_I2C, regs, stD, partD, stT, partT)} :
            /\ Called("ReadDateTime_Bin", NoArg, res)
            /\ out' = [NoOut EXCEPT !.date = res.date, !.time = res.time]
            /\ UNCHANGED DS1307_I2C

CallReadDateTime_BCD ==
    /\ MoreCalls
    /\ \E stD, stT \in HALStatus : \E partD \in Parts(stD), partT \in Parts(stT) :
        \E res \in {DS1307_ReadDateTime_BCD(DS1307_I2C, regs, stD, partD, stT, partT)} :
            /\ Called("ReadDateTime_BCD", NoArg, res)
            /\ out' = [NoOut EXCEPT !.date = res.date, !.time = res.time]
            /\ UNCHANGED DS1307_I2C

\* the caller takes the result and goes on: its next call starts from the
\* retained handle and the registers this call has left
Return ==
    /\ fn # "none"
    /\ fn' = "none"
    /\ arg' = NoArg
    /\ ret' = Unset
    /\ out' = NoOut
    /\ log' = << >>
    /\ UNCHANGED <<DS1307_I2C, regs, calls>>

Next ==
    \/ Return
    \/ CallInit
    \/ CallReadReg
    \/ CallWriteReg
    \/ CallReadTime_Bin
    \/ CallReadTime_BCD
    \/ CallReadDate_Bin
    \/ CallReadDate_BCD
    \/ CallReadDateTime_Bin
    \/ CallReadDateTime_BCD

Spec == Init /\ [][Next]_vars

----------------------------------------------------------------------------
(* The specification of DS1307_Bin_to_BCD on its own: any array of up to   *)
(* MaxBcdLen bytes b, b+s, b+2s, ... and any len up to its length.         *)

BcdSteps == {1, 50}

BcdInputs ==
    { [i \in 1..n |-> U8(b + (i - 1) * s)] : n \in 0..MaxBcdLen, b \in Byte, s \in BcdSteps }

InitBCD ==
    /\ DS1307_I2C = 0
    /\ regs \in RegImages
    /\ fn = "none"
    /\ arg \in { [NoArg EXCEPT !.data = d] : d \in BcdInputs }
    /\ ret = Unset
    /\ out = NoOut
    /\ log = << >>
    /\ calls = 0

CallBin_to_BCD ==
    \E len \in 0..Len(arg.data) :
        /\ fn = "none"
        /\ fn' = "Bin_to_BCD"
        /\ arg' = [arg EXCEPT !.len = len]
        /\ out' = [NoOut EXCEPT !.buf = DS1307_Bin_to_BCD(arg.data, len)]
        /\ calls' = calls + 1
        /\ UNCHANGED <<DS1307_I2C, regs, ret, log>>

NextBCD == CallBin_to_BCD

SpecBCD == InitBCD /\ [][NextBCD]_vars

----------------------------------------------------------------------------
(* Properties of one call, read off the record of the call just made *)

IsWrite(t, reg, size) ==
    t.op = "write" /\ t.MemAddress = reg /\ t.Size = size /\ Len(t.pData) = size

IsRead(t, reg, size) ==
    t.op = "read" /\ t.MemAddress = reg /\ t.Size = size

AllOK(l) == \A i \in 1..Len(l) : l[i].status = DS1307_OK

\* C1: DS1307_WriteReg with a length above 64 returns DS1307_DATA_SIZE_ERROR
\* and issues no bus transaction, at every register address; with length
\* exactly 64 it is not rejected and issues one bus write.
C1_OversizedWriteRejected ==
    fn = "WriteReg" =>
        /\ arg.len > 64 => ret = DS1307_DATA_SIZE_ERROR /\ log = << >>
        /\ arg.len = 64 =>
              /\ ret # DS1307_DATA_SIZE_ERROR
              /\ Len(log) = 1
              /\ log[1].op = "write"

C1_Witness ==
    /\ fn = "WriteReg"
    /\ arg.len = 255
    /\ arg.regAdd = 63
    /\ ret = DS1307_DATA_SIZE_ERROR
    /\ log = << >>

\* C2: when the first bus write of DS1307_Init (to the seconds register)
\* returns DS1307_ERROR, Init returns DS1307_NOT_FOUND and that write is the
\* only bus transaction of the call.
C2_InitNotFound ==
    (fn = "Init" /\ log[1].status = DS1307_ERROR) =>
        /\ ret = DS1307_NOT_FOUND
        /\ Len(log) = 1
        /\ IsWrite(log[1], D_DS1307_REG_SEC, 1)

C2_Witness ==
    /\ fn = "Init"
    /\ log[1].status = DS1307_ERROR
    /\ ret = DS1307_NOT_FOUND
    /\ Len(log) = 1

\* C3: when every transport call returns OK, DS1307_Init(handle, mode) issues
\* exactly three transactions in this order: a 1-byte write of 0x00 to register
\* 0x00, a 1-byte write of mode to register 0x07, a 1-byte read of register
\* 0x07; it returns the status of that read.
C3_InitThreeOperations ==
    (fn = "Init" /\ AllOK(log)) =>
        /\ Len(log) = 3
        /\ IsWrite(log[1], 0, 1) /\ log[1].pData = <<0>>
        /\ IsWrite(log[2], 7, 1) /\ log[2].pData = <<arg.sqwOut>>
        /\ IsRead(log[3], 7, 1)
        /\ ret = log[3].status

C3_Witness ==
    /\ fn = "Init"
    /\ AllOK(log)
    /\ Len(log) = 3
    /\ arg.sqwOut = 128
    /\ log[2].pData = <<128>>
    /\ ret = DS1307_OK

\* C4: DS1307_ReadDateTime_Bin and DS1307_ReadDateTime_BCD issue exactly two
\* bus reads, the Date read (register 0x03) before the Time read (register
\* 0x00), whatever the Date read's status, and return the Time read's status.
C4_DateThenTime ==
    fn \in {"ReadDateTime_Bin", "ReadDateTime_BCD"} =>
        /\ Len(log) = 2
        /\ log[1].op = "read" /\ log[1].MemAddress = 3
        /\ log[2].op = "read" /\ log[2].MemAddress = 0
        /\ ret = log[2].status

C4_Witness ==
    /\ fn = "ReadDateTime_Bin"
    /\ Len(log) = 2
    /\ log[1].status = DS1307_ERROR
    /\ log[2].status = DS1307_OK
    /\ ret = DS1307_OK

\* C5: DS1307_Bin_to_BCD replaces every byte v in 0..99 among the first len
\* elements by (v / 10) * 16 + (v % 10), each element on its own; the array
\* keeps its length and order, and the elements after the first len stay.
C5_BinToBCD ==
    fn = "Bin_to_BCD" =>
        /\ Len(out.buf) = Len(arg.data)
        /\ \A i \in 1..Len(arg.data) :
              /\ (i <= arg.len /\ arg.data[i] <= 99) =>
                    out.buf[i] = (arg.data[i] \div 10) * 16 + (arg.data[i] % 10)
              /\ i > arg.len => out.buf[i] = arg.data[i]

C5_Witness ==
    /\ fn = "Bin_to_BCD"
    /\ arg.len = 2
    /\ Len(arg.data) >= 3
    /\ arg.data[1] = 45 /\ out.buf[1] = 69
    /\ arg.data[2] = 46 /\ out.buf[2] = 70
    /\ out.buf[3] = 47

\* C6: with a transport that delivers the register contents and returns OK,
\* DS1307_ReadTime_Bin returns the bytes of registers 0x00, 0x01, 0x02
\* unchanged as Sec, Min, Hour.
C6_ReadTimeBinReturnsRegisters ==
    (fn = "ReadTime_Bin" /\ AllOK(log)) =>
        out.time = [Sec |-> regs[0], Min |-> regs[1], Hour |-> regs[2]]

\* C7: DS1307_ReadReg(address, out, length) with length <= 64 issues exactly
\* one bus read, at register address, whose transfer length is length; the
\* first bytes of the output are the bytes the transport delivered and the
\* status is the transport's.
C7_ReadRegOneRead ==
    (fn = "ReadReg" /\ arg.len <= 64) =>
        /\ Len(log) = 1
        /\ IsRead(log[1], arg.regAdd, arg.len)
        /\ Len(out.buf) = arg.len
        /\ \A i \in 1..Len(log[1].pData) : i <= arg.len => out.buf[i] = log[1].pData[i]
        /\ ret = log[1].status

\* C8: DS1307_WriteReg(address, bytes, length) with length <= 64 issues exactly
\* one bus write, at register address, of length bytes that are the caller's
\* bytes in order; the status is the transport's and the caller's buffer is
\* as it was.
C8_WriteRegOneWrite ==
    (fn = "WriteReg" /\ arg.len <= 64) =>
        /\ Len(log) = 1
        /\ IsWrite(log[1], arg.regAdd, arg.len)
        /\ \A i \in 1..arg.len : log[1].pData[i] = arg.data[i]
        /\ ret = log[1].status
        /\ out.buf = arg.data

C8_Witness ==
    /\ fn = "WriteReg"
    /\ arg.len = 4
    /\ arg.regAdd = 63
    /\ Len(log) = 1
    /\ log[1].pData = <<200, 201, 202, 203>>
    /\ ret = DS1307_TIMEOUT_ERR

\* C9: DS1307_ReadDate_Bin issues one read of 4 bytes at register 0x03 and
\* returns the transport's status; when the transport delivers the register
\* contents, Day, Date, Month, Year are the bytes of registers 0x03..0x06.
C9_ReadDateBinReturnsRegisters ==
    fn = "ReadDate_Bin" =>
        /\ Len(log) = 1
        /\ IsRead(log[1], D_DS1307_REG_DAY, 4)
        /\ ret = log[1].status
        /\ AllOK(log) =>
              out.date = [Day |-> regs[3], Date |-> regs[4], Month |-> regs[5],
                          Year |-> regs[6]]

\* the bytes a binary variant stores from bus read t into its n-byte buffer
BinBytes(t, n) == Received(ZeroBuf(n), t)

\* C10: DS1307_ReadTime_BCD and DS1307_ReadDate_BCD issue the bus read of
\* their binary variants (3 bytes at 0x00, 4 bytes at 0x03); every field is the
\* conversion of the byte the binary variant returns for that read, and the
\* status is the bus read's status.
C10_BCDVariants ==
    /\ fn = "ReadTime_BCD" =>
          /\ Len(log) = 1
          /\ IsRead(log[1], D_DS1307_REG_SEC, 3)
          /\ out.time = Time(DS1307_Bin_to_BCD(BinBytes(log[1], 3), 3))
          /\ ret = log[1].status
    /\ fn = "ReadDate_BCD" =>
          /\ Len(log) = 1
          /\ IsRead(log[1], D_DS1307_REG_DAY, 4)
          /\ out.date = Date(DS1307_Bin_to_BCD(BinBytes(log[1], 4), 4))
          /\ ret = log[1].status

\* the statuses of the bus transactions of the call
BusStatuses == { log[i].status : i \in 1..Len(log) }

ReadFns == {"ReadReg", "ReadTime_Bin", "ReadTime_BCD", "ReadDate_Bin", "ReadDate_BCD",
            "ReadDateTime_Bin", "ReadDateTime_BCD"}

\* C11: the status a call returns is the status of one of its own bus
\* transactions, except that DS1307_Init returns DS1307_NOT_FOUND when its
\* seconds-register write returned DS1307_ERROR and DS1307_WriteReg returns
\* DS1307_DATA_SIZE_ERROR when its length is above 64; nothing else returns
\* these two codes, and a read function's status is always its bus read's.
C11_StatusPassThrough ==
    fn # "none" =>
        /\ ret = DS1307_NOT_FOUND =>
              fn = "Init" /\ log[1].status = DS1307_ERROR /\ IsWrite(log[1], 0, 1)
        /\ ret = DS1307_DATA_SIZE_ERROR => fn = "WriteReg" /\ arg.len > 64
        /\ ret \notin {DS1307_NOT_FOUND, DS1307_DATA_SIZE_ERROR} => ret \in BusStatuses
        /\ fn \in ReadFns => ret \in BusStatuses

C11_Witness ==
    /\ fn = "Init"
    /\ calls = 2
    /\ ret = DS1307_NOT_FOUND
    /\ BusStatuses = {DS1307_ERROR}

\* C12: whenever the seconds-register write or the control-register write of
\* DS1307_Init did not return OK, the status DS1307_Init returns is not
\* DS1307_OK.
C12_InitReportsFailedWrites ==
    (fn = "Init" /\ \E i \in 1..Len(log) :
                        log[i].op = "write" /\ log[i].status # DS1307_OK) =>
        ret # DS1307_OK

\* C13: no bus transaction of at most 64 bytes addresses a register beyond
\* 0x3F: its register address plus its length minus one is at most 0x3F.
C13_WithinRegisterWindow ==
    \A i \in 1..Len(log) :
        log[i].Size <= 64 => log[i].MemAddress + log[i].Size - 1 <= 63

\* C14: every bus transaction of DS1307_Init and of every later call uses the
\* retained copy of the handle given to the last DS1307_Init; DS1307_Init
\* replaces the retained handle by its argument, also when it returns
\* DS1307_NOT_FOUND, and no other function changes it.
C14_RetainedHandle ==
    [][ fn' # "none" =>
          /\ \A i \in 1..Len(log') : log'[i].hi2c = DS1307_I2C'
          /\ fn' = "Init" => DS1307_I2C' = arg'.handler
          /\ fn' # "Init" => DS1307_I2C' = DS1307_I2C ]_vars

C14_Witness ==
    /\ fn = "Init"
    /\ calls = 2
    /\ arg.handler = 2
    /\ ret = DS1307_NOT_FOUND
    /\ DS1307_I2C = 2
    /\ log[1].hi2c = 2

\* C15: every bus transaction of every driver function is addressed to device
\* 0x68 with a register-address width of 1 and the timeout DS1307_TIMEOUT.
C15_DeviceAddress ==
    \A i \in 1..Len(log) :
        /\ log[i].DevAddress = 104
        /\ log[i].MemAddSize = 1
        /\ log[i].Timeout = 10

C15_Witness ==
    /\ fn = "Init"
    /\ Len(log) = 3
    /\ \A i \in 1..3 : log[i].DevAddress = 104 /\ log[i].MemAddSize = 1

Ops(l) == [i \in 1..Len(l) |-> l[i].op]

\* C17: the number of bus transactions of a call is fixed, whatever statuses
\* the transport returns: one read for ReadReg, ReadTime_* and ReadDate_*, two
\* reads for ReadDateTime_*, one write for WriteReg (none when the length is
\* above 64), write, write, read for Init (one write when the first returns
\* DS1307_ERROR); nothing is issued again after a status other than OK.
C17_NoRetry ==
    /\ fn \in {"ReadReg", "ReadTime_Bin", "ReadTime_BCD", "ReadDate_Bin", "ReadDate_BCD"} =>
          Ops(log) = <<"read">>
    /\ fn \in {"ReadDateTime_Bin", "ReadDateTime_BCD"} => Ops(log) = <<"read", "read">>
    /\ fn = "WriteReg" =>
          Ops(log) = IF arg.len > 64 THEN << >> ELSE <<"write">>
    /\ fn = "Init" =>
          Ops(log) = IF log[1].status = DS1307_ERROR THEN <<"write">>
                     ELSE <<"write", "write", "read">>

C17_Witness ==
    /\ fn = "ReadDateTime_BCD"
    /\ Len(log) = 2
    /\ log[1].status = DS1307_TIMEOUT_ERR
    /\ log[2].status = DS1307_BUSY

\* C18: the seconds-register write of DS1307_Init carries the one byte 0x00,
\* whatever the register held and whatever the mode; once the peripheral has
\* applied it, the clock-halt bit and the seconds count are 0.
C18_InitWritesZeroSeconds ==
    fn = "Init" =>
        /\ IsWrite(log[1], D_DS1307_REG_SEC, 1)
        /\ log[1].pData = <<0>>
        /\ log[1].status = DS1307_OK => regs[0] = 0

C18_Witness ==
    /\ fn = "Init"
    /\ log[1].status = DS1307_OK
    /\ log[1].pData = <<0>>
    /\ regs[0] = 0
    /\ arg.sqwOut = 16

\* C19: for a byte v in 100..255 DS1307_Bin_to_BCD stores
\* ((v / 10) * 16 + (v % 10)) mod 256, an 8-bit value whose low nibble is
\* v % 10.
C19_BinToBCDTruncates ==
    fn = "Bin_to_BCD" =>
        \A i \in 1..Len(arg.data) :
            (i <= arg.len /\ arg.data[i] >= 100) =>
                /\ out.buf[i] = ((arg.data[i] \div 10) * 16 + (arg.data[i] % 10)) % 256
                /\ out.buf[i] \in 0..255
                /\ out.buf[i] % 16 = arg.data[i] % 10

C19_Witness ==
    /\ fn = "Bin_to_BCD"
    /\ arg.len >= 1
    /\ arg.data[1] = 255
    /\ out.buf[1] = 149

\* the bytes of the n-byte read t as the caller of DS1307_ReadReg gets them,
\* where known: a byte the transport did not deliver is 0
Undelivered(t, n) == { i \in 1..n : i > Len(t.pData) }

TimeBytes(tm) == <<tm.Sec, tm.Min, tm.Hour>>

DateBytes(d) == <<d.Day, d.Date, d.Month, d.Year>>

\* every byte of s is assigned, and is conv(0) where the transport delivered none
Overwritten(s, t, bcd) ==
    /\ \A i \in 1..Len(s) : s[i] \in 0..255
    /\ \A i \in Undelivered(t, Len(s)) : s[i] = IF bcd THEN Bin_to_BCD_Byte(0) ELSE 0

\* C20: DS1307_ReadTime_*, DS1307_ReadDate_* and DS1307_ReadDateTime_* assign
\* every field of their output whatever the status of the bus read; a field
\* whose byte the transport did not deliver holds the staging buffer's 0
\* (converted, for the BCD variants).
C20_OutputOverwritten ==
    /\ fn \in {"ReadTime_Bin", "ReadTime_BCD"} =>
          Overwritten(TimeBytes(out.time), log[1], fn = "ReadTime_BCD")
    /\ fn \in {"ReadDate_Bin", "ReadDate_BCD"} =>
          Overwritten(DateBytes(out.date), log[1], fn = "ReadDate_BCD")
    /\ fn \in {"ReadDateTime_Bin", "ReadDateTime_BCD"} =>
          /\ Overwritten(DateBytes(out.date), log[1], fn = "ReadDateTime_BCD")
          /\ Overwritten(TimeBytes(out.time), log[2], fn = "ReadDateTime_BCD")

C20_Witness ==
    /\ fn = "ReadTime_Bin"
    /\ ret = DS1307_ERROR
    /\ log[1].pData = << >>
    /\ out.time = [Sec |-> 0, Min |-> 0, Hour |-> 0]

Writers == {"Init", "WriteReg"}

\* C21: a call of DS1307_ReadReg, DS1307_ReadTime_*, DS1307_ReadDate_* or
\* DS1307_ReadDateTime_* issues no bus write and leaves the peripheral's
\* registers and the retained handle as they were; a bus write or a change of
\* a register comes only from DS1307_Init or DS1307_WriteReg, and a change of
\* the retained handle only from DS1307_Init.
C21_ReadsChangeNothing ==
    [][ /\ fn' \in ReadFns =>
            /\ Len(log') >= 1
            /\ \A i \in 1..Len(log') : log'[i].op = "read"
            /\ regs' = regs
            /\ DS1307_I2C' = DS1307_I2C
        /\ (\E i \in 1..Len(log') : log'[i].op = "write") => fn' \in Writers
        /\ regs' # regs => fn' \in Writers
        /\ DS1307_I2C' # DS1307_I2C => fn' = "Init" ]_vars

\* a read after DS1307_Init(2, _4096Hz): the registers and the handle Init set are still there
C21_Witness ==
    /\ fn = "ReadDateTime_Bin"
    /\ calls = 2
    /\ Len(log) = 2
    /\ \A i \in 1..Len(log) : log[i].op = "read" /\ log[i].status = DS1307_OK
    /\ DS1307_I2C = 2
    /\ regs[D_DS1307_REG_SEC] = 0
    /\ regs[D_DS1307_REG_CTRL] = 16

====
